---- MODULE Spec2Model ----
(***************************************************************************)
(* Transactional inventory and multi-currency ledger of punto_de_venta_web *)
(* (src/database.py DatabaseManager, src/app.py request handlers).         *)
(*                                                                         *)
(* Money is counted in cents (10.00 -> 1000), the exchange rate in         *)
(* hundredths (36.50 -> 3650), quantities in whole units.  The store is    *)
(* the committed content of the SQLite file; request handlers run as       *)
(* threads (Procs) whose statements interleave.  A write needs the store's *)
(* single write lock; a writer that finds it taken waits, or gives up      *)
(* after the connection's timeout ("Busy").                                *)
(***************************************************************************)
EXTENDS Integers, Sequences, FiniteSets, TLC

\* ---- bounds of the model ------------------------------------------------
MaxProd == 2        \* rows the productos table may hold
MaxOps == 2         \* requests served in one behaviour

\* ---- program constants and input domains ---------------------------------
NULL == -1                      \* SQL NULL / Python None in a numeric column
TasaInicial == 3650             \* 'tasa_usd_ves' seed and tasa_camb default
Procs == {1, 2}                 \* request threads
IdsProducto == {1, 2}           \* product ids a request may name
Codigos == {"", "A"}            \* scan codes a form may carry ("" = none)
PreciosUsd == {1000}            \* base sell prices (10.00)
CostosUsd == {0, 800}           \* base purchase costs (0 = not given, 8.00)
Stocks == {-2, 0, 5}            \* stock values a product form may carry
Cantidades == {2, 3}            \* sale line quantities
PreciosUnit == {40000}          \* sale line unit prices (400.00)
CantCompra == {10}              \* purchase line quantities
TasasCompra == {4000}           \* purchase invoice rates (40.00)
TasasNuevas == {-100, 0, 3650, 4000}   \* rates posted to /api/tasa-cambio
Ajustes == {-1, 4}              \* cantidad_sumar of a stock adjustment

LineasVenta ==
  {l \in [producto_id : IdsProducto, cantidad : Cantidades,
          precio_unitario : PreciosUnit] : l.producto_id = 1 \/ l.cantidad = 3}
Carritos ==
  {<<>>} \cup {<<a>> : a \in LineasVenta} \cup {<<a, b>> : a, b \in LineasVenta}

\* payments a sale request may carry: 800.00 in USD at rate 1.0, 800.00 in VES
\* at rate 40.00, and a payment whose monto_pagado is null
PagoUsd == [monto_pagado |-> 80000, moneda_pago |-> "USD", tasa_cambio |-> 100]
PagoVes == [monto_pagado |-> 80000, moneda_pago |-> "VES", tasa_cambio |-> 4000]
PagoSinMonto == [monto_pagado |-> NULL, moneda_pago |-> "USD", tasa_cambio |-> 100]

\* bodies posted to /api/venta: every cart without charges or payments, one cart
\* of 2 units at 400.00 with discount 10.00 and tax 128.00, and the cart of 2
\* units at 400.00 with one payment and with a good payment followed by a bad one
SolicitudesVenta ==
  {[items |-> c, descuento |-> 0, impuesto |-> 0, pagos |-> <<>>] : c \in Carritos}
  \cup {[items |-> <<[producto_id |-> 1, cantidad |-> 2, precio_unitario |-> 40000]>>,
         descuento |-> 1000, impuesto |-> 12800, pagos |-> <<>>]}
  \cup {[items |-> <<[producto_id |-> 1, cantidad |-> 2, precio_unitario |-> 40000]>>,
         descuento |-> 0, impuesto |-> 0, pagos |-> pp] :
           pp \in {<<PagoVes>>, <<PagoUsd, PagoSinMonto>>}}

LineasCompra ==
  [producto_id : IdsProducto, cantidad : CantCompra, precio_unitario_usd : {800}]
Pedidos ==
  {<<>>} \cup {<<a>> : a \in LineasCompra} \cup {<<a, b>> : a, b \in LineasCompra}
\* product forms; the negative stock comes on one form only
Formularios ==
  {f \in [codigo_barras : Codigos, precio_venta_usd : PreciosUsd,
          precio_compra_usd : CostosUsd, stock_actual : Stocks] :
     f.stock_actual >= 0 \/ (f.codigo_barras = "" /\ f.precio_compra_usd = 0)}

VARIABLES
  db,      \* committed content of the store
  lock,    \* set of threads holding the write lock (at most one)
  pc,      \* position of each thread in its handler
  args,    \* the request each thread is serving
  loc,     \* values the thread has read so far
  res,     \* outcome of the last request each thread finished
  nops,    \* requests accepted so far
  ventana  \* the backup window: its flag, its backup threads, the copies made

vars == <<db, lock, pc, args, loc, res, nops, ventana>>

\* ---- values ---------------------------------------------------------------
\* the backup threads the window may start
Hilos == 1..MaxOps

\* BackupWindow.__init__: no backup is running, no backup thread exists
BackupWindow ==
  [is_backup_running |-> FALSE, hilos |-> [h \in Hilos |-> "none"],
   respaldos |-> <<>>, avisos |-> 0]

NoArgs == [op |-> "none"]
NoLoc == [op |-> "none"]
\* outcome of a request: val is the id or value the call returned
Resultado(op, ok, err, val) == [op |-> op, ok |-> ok, err |-> err, val |-> val]
NoRes == Resultado("none", TRUE, "", 0)

\* ROUND(x, 2) of a product of cents and hundredths (x is in 1/10000)
Round2(x) == IF x >= 0 THEN (x + 50) \div 100 ELSE -((50 - x) \div 100)

\* ---- the store ---------------------------------------------------------------
Movimiento(producto_id, tipo, cantidad, anterior, nueva, motivo) ==
  [producto_id |-> producto_id, tipo_movimiento |-> tipo, cantidad |-> cantidad,
   cantidad_anterior |-> anterior, cantidad_nueva |-> nueva, motivo |-> motivo]

\* the tables after construction: the seeded rate, no product, no document
insert_initial_data ==
  [tasa |-> TasaInicial,
   productos |-> <<>>,
   ventas |-> <<>>, detalle_ventas |-> <<>>,
   compras |-> <<>>, detalle_compras |-> <<>>,
   movimientos |-> <<>>, pagos |-> <<>>]

\* a database file that was never initialized: no table has a row, no rate is
\* stored
ArchivoVacio == [insert_initial_data EXCEPT !.tasa = NULL]

\* a schema creation that writes the seed rate again on every run
init_database_resiembra(d) == [d EXCEPT !.tasa = TasaInicial]

\* init_database on the store d: CREATE TABLE IF NOT EXISTS keeps the tables
\* that exist, and insert_initial_data seeds configuracion_monedas only when
\* the table has no row
init_database(d) ==
  IF d.tasa = NULL THEN [d EXCEPT !.tasa = TasaInicial] ELSE d

\* ---- connections and the write lock -----------------------------------------
\* a writer that does not wait for the write lock
LockFree_siempre(l) == TRUE

\* get_connection: WAL journal, 30 s busy timeout.  A writer proceeds when no
\* other connection holds the write lock.
LockFree(l) == l = {}

\* a request ends: the thread is idle again and keeps only its outcome
Termina(p, op, ok, err, val) ==
  /\ pc' = [pc EXCEPT ![p] = "idle"]
  /\ args' = [args EXCEPT ![p] = NoArgs]
  /\ loc' = [loc EXCEPT ![p] = NoLoc]
  /\ res' = [res EXCEPT ![p] = Resultado(op, ok, err, val)]

Llega(p) == pc[p] = "idle" /\ nops < MaxOps

\* ---- crear_venta -------------------------------------------------------------
ExisteProducto(d, id) == id \in 1..Len(d.productos)

\* a sale that never takes the stock below zero
VentaStockNuevo_tope(stock_anterior, cantidad) ==
  IF stock_anterior >= cantidad THEN stock_anterior - cantidad ELSE 0

\* the sign of the sale quantity flipped
VentaStockNuevo_suma(stock_anterior, cantidad) == stock_anterior + cantidad

VentaStockNuevo(stock_anterior, cantidad) == stock_anterior - cantidad

\* a subtotal that adds the unit prices and forgets the quantities
RECURSIVE SumaSubtotales_sinCantidad(_)
SumaSubtotales_sinCantidad(items) ==
  IF items = <<>> THEN 0
  ELSE Head(items).precio_unitario + SumaSubtotales_sinCantidad(Tail(items))

RECURSIVE SumaSubtotales(_)
SumaSubtotales(items) ==
  IF items = <<>> THEN 0
  ELSE Head(items).cantidad * Head(items).precio_unitario + SumaSubtotales(Tail(items))

\* a pass that, for a product the sale has already sold on an earlier line,
\* takes as stock the one that line started from
VentaItem_lecturaInicial(t, venta_id, item) ==
  LET d1 == [t.d EXCEPT !.detalle_ventas = Append(@,
               [venta_id |-> venta_id, producto_id |-> item.producto_id,
                cantidad |-> item.cantidad, precio_unitario |-> item.precio_unitario,
                subtotal |-> item.cantidad * item.precio_unitario])]
      previos == SelectSeq(d1.movimientos,
                   LAMBDA m : m.motivo = <<"Venta #", venta_id>>
                              /\ m.producto_id = item.producto_id)
  IN IF ~t.ok THEN t
     ELSE IF ~(item.producto_id \in 1..Len(d1.productos))
          THEN [ok |-> FALSE, d |-> d1, k |-> t.k + 1]
     ELSE LET stock_anterior == IF previos = <<>>
                                THEN d1.productos[item.producto_id].stock_actual
                                ELSE previos[1].cantidad_anterior
              stock_nuevo == stock_anterior - item.cantidad
          IN [ok |-> TRUE, k |-> t.k + 1,
              d |-> [d1 EXCEPT
                 !.productos[item.producto_id].stock_actual = stock_nuevo,
                 !.movimientos = Append(@, Movimiento(item.producto_id, "salida",
                      item.cantidad, stock_anterior, stock_nuevo,
                      <<"Venta #", venta_id>>))]]

\* one pass of the loop over items_venta; t = [ok, d, k], k the lines started
VentaItem(t, venta_id, item) ==
  LET d1 == [t.d EXCEPT !.detalle_ventas = Append(@,
               [venta_id |-> venta_id, producto_id |-> item.producto_id,
                cantidad |-> item.cantidad, precio_unitario |-> item.precio_unitario,
                subtotal |-> item.cantidad * item.precio_unitario])]
  IN IF ~t.ok THEN t
     ELSE IF ~ExisteProducto(d1, item.producto_id)
          THEN [ok |-> FALSE, d |-> d1, k |-> t.k + 1]
     ELSE LET stock_anterior == d1.productos[item.producto_id].stock_actual
              stock_nuevo == VentaStockNuevo(stock_anterior, item.cantidad)
          IN [ok |-> TRUE, k |-> t.k + 1,
              d |-> [d1 EXCEPT
                 !.productos[item.producto_id].stock_actual = stock_nuevo,
                 !.movimientos = Append(@, Movimiento(item.producto_id, "salida",
                      item.cantidad, stock_anterior, stock_nuevo,
                      <<"Venta #", venta_id>>))]]

\* a loop that returns after its first pass
VentaItems_primera(t, venta_id, items) ==
  IF items = <<>> THEN t ELSE VentaItem(t, venta_id, Head(items))

RECURSIVE VentaItems(_, _, _)
VentaItems(t, venta_id, items) ==
  IF items = <<>> THEN t
  ELSE VentaItems(VentaItem(t, venta_id, Head(items)), venta_id, Tail(items))

\* the statements of crear_venta between BEGIN IMMEDIATE and commit, run on d
crear_venta(d, items_venta, descuento, impuesto) ==
  LET subtotal == SumaSubtotales(items_venta)
      total == subtotal + impuesto - descuento
      venta_id == Len(d.ventas) + 1
      d1 == [d EXCEPT !.ventas = Append(@,
               [subtotal |-> subtotal, impuesto |-> impuesto,
                descuento |-> descuento, total |-> total])]
  IN [id |-> venta_id] @@ VentaItems([ok |-> TRUE, d |-> d1, k |-> 0], venta_id, items_venta)

\* a failure path that commits what the transaction had written
Rollback_parcial(before, partial) == partial

\* conn.rollback(): the store keeps what was committed before the transaction
Rollback(before, partial) == before

\* a handler without the empty-cart check
CarritoVacio_nunca(items) == FALSE

CarritoVacio(items) == items = <<>>

\* float(pago.get('monto_pagado', 0)), float(pago.get('tasa_cambio', 1.0))
PagoValido(pago) == pago.monto_pagado # NULL /\ pago.tasa_cambio # NULL

\* a conversion that divides by the stored system rate
MontoEquivalenteUsd_tasaSistema(monto_pagado, moneda_pago, tasa_cambio) ==
  IF moneda_pago = "USD" THEN monto_pagado
  ELSE IF db.tasa > 0 THEN (monto_pagado * 100) \div db.tasa ELSE 0

\* amounts in cents, rate in hundredths; the payments of the model divide evenly
MontoEquivalenteUsd(monto_pagado, moneda_pago, tasa_cambio) ==
  IF moneda_pago = "USD" THEN monto_pagado
  ELSE IF tasa_cambio > 0 THEN (monto_pagado * 100) \div tasa_cambio ELSE 0

\* a payment INSERT that replaces the payment rows already stored
registrar_pago_documento_reemplaza(d, venta_id, pago) ==
  [d EXCEPT !.pagos =
     <<[venta_id |-> venta_id, monto_pagado |-> pago.monto_pagado,
        moneda_pago |-> pago.moneda_pago, tasa_cambio |-> pago.tasa_cambio,
        monto_equivalente_usd |-> pago.monto_pagado]>>]

\* the INSERT of registrar_pago_documento, committed on its own connection
registrar_pago_documento(d, venta_id, pago) ==
  [d EXCEPT !.pagos = Append(@,
     [venta_id |-> venta_id, monto_pagado |-> pago.monto_pagado,
      moneda_pago |-> pago.moneda_pago, tasa_cambio |-> pago.tasa_cambio,
      monto_equivalente_usd |->
        MontoEquivalenteUsd(pago.monto_pagado, pago.moneda_pago, pago.tasa_cambio)])]

\* POST /api/venta: the handler rejects an empty cart, else calls crear_venta
api_crear_venta(p) ==
  /\ Llega(p)
  /\ \E data \in SolicitudesVenta :
       IF CarritoVacio(data.items)
       THEN /\ Termina(p, "venta", FALSE, "EmptyCart", 0)
       ELSE /\ pc' = [pc EXCEPT ![p] = "venta_begin"]
            /\ args' = [args EXCEPT ![p] =
                          [op |-> "venta", items |-> data.items,
                           descuento |-> data.descuento, impuesto |-> data.impuesto,
                           pagos |-> data.pagos]]
            /\ UNCHANGED <<loc, res>>
  /\ nops' = nops + 1
  /\ UNCHANGED <<db, lock>>
  /\ UNCHANGED ventana

\* BEGIN IMMEDIATE: takes the write lock, or fails after the busy timeout
venta_begin(p) ==
  /\ pc[p] = "venta_begin"
  /\ \/ /\ LockFree(lock)
        /\ lock' = {p}
        /\ pc' = [pc EXCEPT ![p] = "venta_body"]
        /\ loc' = [loc EXCEPT ![p] = [op |-> "venta", snap |-> db]]
        /\ UNCHANGED <<db, args, res>>
     \/ /\ ~LockFree(lock)
        /\ Termina(p, "venta", FALSE, "Busy", 0)
        /\ UNCHANGED <<db, lock>>
  /\ UNCHANGED nops
  /\ UNCHANGED ventana

\* header, lines, stock and movements, then commit; any exception rolls back.
\* After the commit the handler goes on to the payments of the request, if any.
venta_body(p) ==
  /\ pc[p] = "venta_body"
  /\ LET t == crear_venta(loc[p].snap, args[p].items, args[p].descuento,
                          args[p].impuesto)
     IN IF t.ok
        THEN /\ db' = t.d
             /\ IF args[p].pagos = <<>>
                THEN Termina(p, "venta", TRUE, "", t.id)
                ELSE /\ pc' = [pc EXCEPT ![p] = "venta_pagos"]
                     /\ loc' = [loc EXCEPT ![p] =
                                  [op |-> "venta", venta_id |-> t.id, k |-> 1]]
                     /\ UNCHANGED <<args, res>>
        ELSE /\ db' = Rollback(db, t.d)
             /\ Termina(p, "venta", FALSE, "NotFound", t.k)
  /\ lock' = lock \ {p}
  /\ UNCHANGED nops
  /\ UNCHANGED ventana

\* one pass of `for pago in pagos`: the conversions of the handler, then
\* registrar_pago_documento on a connection of its own
venta_pagos(p) ==
  /\ pc[p] = "venta_pagos"
  /\ LET pago == args[p].pagos[loc[p].k]
         venta_id == loc[p].venta_id
     IN IF ~PagoValido(pago)
        THEN /\ Termina(p, "venta", FALSE, "Invalid", venta_id)
             /\ UNCHANGED db
        ELSE \/ /\ LockFree(lock)
                /\ db' = registrar_pago_documento(db, venta_id, pago)
                /\ IF loc[p].k = Len(args[p].pagos)
                   THEN Termina(p, "venta", TRUE, "", venta_id)
                   ELSE /\ loc' = [loc EXCEPT ![p].k = @ + 1]
                        /\ UNCHANGED <<pc, args, res>>
             \/ /\ ~LockFree(lock)
                /\ Termina(p, "venta", FALSE, "Busy", venta_id)
                /\ UNCHANGED db
  /\ UNCHANGED <<lock, nops>>
  /\ UNCHANGED ventana

\* ---- crear_compra ------------------------------------------------------------
\* the purchased quantity replaces the stock instead of adding to it
CompraStockNuevo_reemplaza(stock_anterior, cant) == cant

CompraStockNuevo(stock_anterior, cant) == stock_anterior + cant

RECURSIVE SumaCompra(_, _)
SumaCompra(items, tasa_cambio) ==
  IF items = <<>> THEN 0
  ELSE Round2(Round2(Head(items).precio_unitario_usd * tasa_cambio)
                * Head(items).cantidad * 100)
       + SumaCompra(Tail(items), tasa_cambio)

\* one pass of the loop over items; t = [ok, d, k], k the lines started
CompraItem(t, compra_id, tasa_cambio, it) ==
  LET prod_id == it.producto_id
      cant == it.cantidad
      precio_usd == it.precio_unitario_usd
      precio_ves == Round2(precio_usd * tasa_cambio)
      d1 == [t.d EXCEPT !.detalle_compras = Append(@,
               [compra_id |-> compra_id, producto_id |-> prod_id, cantidad |-> cant,
                precio_unitario_usd |-> precio_usd, precio_unitario_ves |-> precio_ves,
                subtotal_ves |-> Round2(precio_ves * cant * 100)])]
  IN IF ~t.ok THEN t
     ELSE IF ~ExisteProducto(d1, prod_id) THEN [ok |-> FALSE, d |-> d1, k |-> t.k + 1]
     ELSE LET stock_anterior == d1.productos[prod_id].stock_actual
              stock_nuevo == CompraStockNuevo(stock_anterior, cant)
          IN [ok |-> TRUE, k |-> t.k + 1,
              d |-> [d1 EXCEPT
                 !.productos[prod_id].precio_compra_usd = precio_usd,
                 !.productos[prod_id].precio_compra = precio_ves,
                 !.productos[prod_id].tasa_camb = tasa_cambio,
                 !.productos[prod_id].stock_actual = stock_nuevo,
                 !.movimientos = Append(@, Movimiento(prod_id, "entrada", cant,
                      stock_anterior, stock_nuevo, <<"Compra #", compra_id>>))]]

RECURSIVE CompraItems(_, _, _, _)
CompraItems(t, compra_id, tasa_cambio, items) ==
  IF items = <<>> THEN t
  ELSE CompraItems(CompraItem(t, compra_id, tasa_cambio, Head(items)),
                   compra_id, tasa_cambio, Tail(items))

\* a purchase that skips the lines whose product it does not find
crear_compra_omite(d, tasa_cambio, items) ==
  LET validas == SelectSeq(items, LAMBDA it : ExisteProducto(d, it.producto_id))
      compra_id == Len(d.compras) + 1
      d1 == [d EXCEPT !.compras = Append(@,
               [tasa_cambio |-> tasa_cambio,
                subtotal_ves |-> SumaCompra(validas, tasa_cambio),
                total_ves |-> SumaCompra(validas, tasa_cambio)])]
  IN [id |-> compra_id]
     @@ CompraItems([ok |-> TRUE, d |-> d1, k |-> 0], compra_id, tasa_cambio, validas)

\* a purchase priced with the stored system rate instead of the invoice rate
crear_compra_tasaSistema(d, tasa_cambio, items) ==
  LET subtotal_ves == SumaCompra(items, d.tasa)
      compra_id == Len(d.compras) + 1
      d1 == [d EXCEPT !.compras = Append(@,
               [tasa_cambio |-> tasa_cambio, subtotal_ves |-> subtotal_ves,
                total_ves |-> subtotal_ves])]
  IN [id |-> compra_id]
     @@ CompraItems([ok |-> TRUE, d |-> d1, k |-> 0], compra_id, d.tasa, items)

\* the statements of crear_compra between BEGIN IMMEDIATE and commit, run on d
crear_compra(d, tasa_cambio, items) ==
  LET subtotal_ves == SumaCompra(items, tasa_cambio)
      compra_id == Len(d.compras) + 1
      d1 == [d EXCEPT !.compras = Append(@,
               [tasa_cambio |-> tasa_cambio, subtotal_ves |-> subtotal_ves,
                total_ves |-> subtotal_ves])]
  IN [id |-> compra_id]
     @@ CompraItems([ok |-> TRUE, d |-> d1, k |-> 0], compra_id, tasa_cambio, items)

compra_llega(p) ==
  /\ Llega(p)
  /\ \E tasa_cambio \in TasasCompra, items \in Pedidos :
       args' = [args EXCEPT ![p] =
                  [op |-> "compra", tasa_cambio |-> tasa_cambio, items |-> items]]
  /\ pc' = [pc EXCEPT ![p] = "compra_begin"]
  /\ nops' = nops + 1
  /\ UNCHANGED <<db, lock, loc, res>>
  /\ UNCHANGED ventana

compra_begin(p) ==
  /\ pc[p] = "compra_begin"
  /\ \/ /\ LockFree(lock)
        /\ lock' = {p}
        /\ pc' = [pc EXCEPT ![p] = "compra_body"]
        /\ loc' = [loc EXCEPT ![p] = [op |-> "compra", snap |-> db]]
        /\ UNCHANGED <<db, args, res>>
     \/ /\ ~LockFree(lock)
        /\ Termina(p, "compra", FALSE, "Busy", 0)
        /\ UNCHANGED <<db, lock>>
  /\ UNCHANGED nops
  /\ UNCHANGED ventana

compra_body(p) ==
  /\ pc[p] = "compra_body"
  /\ LET t == crear_compra(loc[p].snap, args[p].tasa_cambio, args[p].items)
     IN IF t.ok
        THEN /\ db' = t.d
             /\ Termina(p, "compra", TRUE, "", t.id)
        ELSE /\ db' = Rollback(db, t.d)
             /\ Termina(p, "compra", FALSE, "NotFound", t.k)
  /\ lock' = lock \ {p}
  /\ UNCHANGED nops
  /\ UNCHANGED ventana

\* ---- Currency Authority -------------------------------------------------------
get_tasa_cambio(d) == IF d.tasa = NULL THEN TasaInicial ELSE d.tasa

actualizar_configuracion_moneda(d, valor) == [d EXCEPT !.tasa = valor]

\* a recomputation that rescales the current local prices by the ratio of the
\* new rate to the recorded one, and does not stamp the new rate
RecalculaFila_desdeLocal(f, nueva_tasa) ==
  IF f.precio_venta_usd # NULL /\ f.precio_compra_usd # NULL
  THEN [f EXCEPT !.precio_venta = (f.precio_venta * nueva_tasa) \div f.tasa_camb,
                 !.precio_compra = (f.precio_compra * nueva_tasa) \div f.tasa_camb]
  ELSE f

\* the UPDATE of recalcular_precios_ves on one row
RecalculaFila(f, nueva_tasa) ==
  IF f.precio_venta_usd # NULL /\ f.precio_compra_usd # NULL
  THEN [f EXCEPT !.precio_venta = Round2(f.precio_venta_usd * nueva_tasa),
                 !.precio_compra = Round2(f.precio_compra_usd * nueva_tasa),
                 !.tasa_camb = nueva_tasa]
  ELSE f

\* a recomputation that also reprices the stored sale lines from the
\* products' new prices
recalcular_precios_ves_conLineas(d, nueva_tasa) ==
  LET P == [i \in 1..Len(d.productos) |-> RecalculaFila(d.productos[i], nueva_tasa)]
      L == [k \in 1..Len(d.detalle_ventas) |->
              LET l == d.detalle_ventas[k]
              IN IF l.producto_id \in 1..Len(P)
                 THEN [l EXCEPT !.precio_unitario = P[l.producto_id].precio_venta,
                                !.subtotal = l.cantidad * P[l.producto_id].precio_venta]
                 ELSE l]
  IN [d EXCEPT !.productos = P, !.detalle_ventas = L]

recalcular_precios_ves(d, nueva_tasa) ==
  [d EXCEPT !.productos =
     [i \in 1..Len(d.productos) |-> RecalculaFila(d.productos[i], nueva_tasa)]]

\* actualizar_tasa_cambio run from start to end with no other writer in between
actualizar_tasa_cambio(d, nueva_tasa) ==
  recalcular_precios_ves(actualizar_configuracion_moneda(d, nueva_tasa), nueva_tasa)

\* a rate check that lets zero through
TasaValida_cero(nueva_tasa) == nueva_tasa >= 0

TasaValida(nueva_tasa) == nueva_tasa > 0

\* POST /api/tasa-cambio
api_tasa_cambio(p) ==
  /\ Llega(p)
  /\ \E nueva_tasa \in TasasNuevas :
       IF TasaValida(nueva_tasa)
       THEN /\ pc' = [pc EXCEPT ![p] = "tasa_config"]
            /\ args' = [args EXCEPT ![p] = [op |-> "tasa", nueva_tasa |-> nueva_tasa]]
            /\ UNCHANGED <<loc, res>>
       ELSE Termina(p, "tasa", FALSE, "Invalid", nueva_tasa)
  /\ nops' = nops + 1
  /\ UNCHANGED <<db, lock>>
  /\ UNCHANGED ventana

\* actualizar_tasa_cambio, first call: the rate row is updated and committed
tasa_config(p) ==
  /\ pc[p] = "tasa_config"
  /\ \/ /\ LockFree(lock)
        /\ db' = actualizar_configuracion_moneda(db, args[p].nueva_tasa)
        /\ pc' = [pc EXCEPT ![p] = "tasa_recalc"]
        /\ UNCHANGED <<args, loc, res>>
     \/ /\ ~LockFree(lock)
        /\ Termina(p, "tasa", FALSE, "Busy", args[p].nueva_tasa)
        /\ UNCHANGED db
  /\ UNCHANGED <<lock, nops>>
  /\ UNCHANGED ventana

\* actualizar_tasa_cambio, second call: recalcular_precios_ves on a new connection
tasa_recalc(p) ==
  /\ pc[p] = "tasa_recalc"
  /\ \/ /\ LockFree(lock)
        /\ db' = recalcular_precios_ves(db, args[p].nueva_tasa)
        /\ Termina(p, "tasa", TRUE, "", args[p].nueva_tasa)
     \/ /\ ~LockFree(lock)
        /\ Termina(p, "tasa", FALSE, "Busy", args[p].nueva_tasa)
        /\ UNCHANGED db
  /\ UNCHANGED <<lock, nops>>
  /\ UNCHANGED ventana

\* ---- Catalog: product create, update, soft delete ----------------------------------
\* float(...) or None
ONone(x) == IF x = 0 THEN NULL ELSE x

\* a table without the UNIQUE constraint
CodigoRepetido_nunca(d, codigo, salvo) == FALSE

\* UNIQUE(codigo_barras): NULLs never collide
CodigoRepetido(d, codigo, salvo) ==
  /\ codigo # ""
  /\ \E i \in 1..Len(d.productos) : i # salvo /\ d.productos[i].codigo_barras = codigo

\* INSERT of api_crear_producto plus the 'Stock inicial' movement
InsertaProducto(d, data, tasa) ==
  LET producto_id == Len(d.productos) + 1
      precio_compra_usd == ONone(data.precio_compra_usd)
      fila == [codigo_barras |-> data.codigo_barras,
               precio_venta_usd |-> data.precio_venta_usd,
               precio_venta |-> Round2(data.precio_venta_usd * tasa),
               precio_compra_usd |-> precio_compra_usd,
               precio_compra |-> IF precio_compra_usd = NULL THEN NULL
                                 ELSE Round2(precio_compra_usd * tasa),
               stock_actual |-> data.stock_actual,
               tasa_camb |-> TasaInicial,
               activo |-> TRUE]
      d1 == [d EXCEPT !.productos = Append(@, fila)]
      stock_inicial == data.stock_actual
  IN IF stock_inicial > 0
     THEN [d1 EXCEPT !.movimientos = Append(@, Movimiento(producto_id, "entrada",
             stock_inicial, 0, stock_inicial, <<"Stock inicial", 0>>))]
     ELSE d1

\* The behaviours start in a store whose first product is already registered:
\* the state POST /api/producto leaves on the constructed database for the form
\* below (scan code "A", 10.00 USD, cost 8.00 USD, stock 5).
FormularioSemilla ==
  [codigo_barras |-> "A", precio_venta_usd |-> 1000, precio_compra_usd |-> 800,
   stock_actual |-> 5]

TiendaInicial ==
  InsertaProducto(insert_initial_data, FormularioSemilla,
                  get_tasa_cambio(insert_initial_data))

Init ==
  /\ db = TiendaInicial
  /\ lock = {}
  /\ pc = [p \in Procs |-> "idle"]
  /\ args = [p \in Procs |-> NoArgs]
  /\ loc = [p \in Procs |-> NoLoc]
  /\ res = [p \in Procs |-> NoRes]
  /\ nops = 0
  /\ ventana = BackupWindow

\* POST /api/producto: reads the rate, then inserts
api_crear_producto(p) ==
  /\ Llega(p)
  /\ Len(db.productos) + Cardinality({q \in Procs : pc[q] = "crear_insert"}) < MaxProd
  /\ \E data \in Formularios :
       args' = [args EXCEPT ![p] = [op |-> "crear", data |-> data]]
  /\ loc' = [loc EXCEPT ![p] = [op |-> "crear", tasa |-> get_tasa_cambio(db)]]
  /\ pc' = [pc EXCEPT ![p] = "crear_insert"]
  /\ nops' = nops + 1
  /\ UNCHANGED <<db, lock, res>>
  /\ UNCHANGED ventana

crear_insert(p) ==
  /\ pc[p] = "crear_insert"
  /\ \/ /\ LockFree(lock)
        /\ IF CodigoRepetido(db, args[p].data.codigo_barras, 0)
           THEN /\ db' = db
                /\ Termina(p, "crear", FALSE, "Duplicate", 0)
           ELSE /\ db' = InsertaProducto(db, args[p].data, loc[p].tasa)
                /\ Termina(p, "crear", TRUE, "", Len(db.productos) + 1)
     \/ /\ ~LockFree(lock)
        /\ Termina(p, "crear", FALSE, "Busy", 0)
        /\ UNCHANGED db
  /\ UNCHANGED <<lock, nops>>
  /\ UNCHANGED ventana

\* UPDATE of api_producto PUT on row producto_id (no row: nothing changes)
ActualizaProducto(d, producto_id, data, tasa) ==
  IF ~ExisteProducto(d, producto_id) THEN d
  ELSE LET precio_compra_usd == ONone(data.precio_compra_usd)
           precio_compra_ves == IF precio_compra_usd = NULL THEN NULL
                                ELSE Round2(precio_compra_usd * tasa)
       IN [d EXCEPT
            !.productos[producto_id].codigo_barras = data.codigo_barras,
            !.productos[producto_id].precio_venta_usd = data.precio_venta_usd,
            !.productos[producto_id].precio_venta =
                Round2(data.precio_venta_usd * tasa),
            !.productos[producto_id].precio_compra_usd = precio_compra_usd,
            !.productos[producto_id].precio_compra =
                IF precio_compra_ves = NULL THEN NULL ELSE ONone(precio_compra_ves),
            !.productos[producto_id].stock_actual = data.stock_actual]

\* PUT /api/producto/<id>: reads the rate, then updates
api_producto_PUT(p) ==
  /\ Llega(p)
  /\ \E producto_id \in IdsProducto, data \in Formularios :
       args' = [args EXCEPT ![p] =
                  [op |-> "put", producto_id |-> producto_id, data |-> data]]
  /\ loc' = [loc EXCEPT ![p] = [op |-> "put", tasa |-> get_tasa_cambio(db)]]
  /\ pc' = [pc EXCEPT ![p] = "put_update"]
  /\ nops' = nops + 1
  /\ UNCHANGED <<db, lock, res>>
  /\ UNCHANGED ventana

put_update(p) ==
  /\ pc[p] = "put_update"
  /\ \/ /\ LockFree(lock)
        /\ IF /\ ExisteProducto(db, args[p].producto_id)
              /\ CodigoRepetido(db, args[p].data.codigo_barras, args[p].producto_id)
           THEN /\ db' = db
                /\ Termina(p, "put", FALSE, "Duplicate", 0)
           ELSE /\ db' = ActualizaProducto(db, args[p].producto_id, args[p].data,
                                           loc[p].tasa)
                /\ Termina(p, "put", TRUE, "", args[p].producto_id)
     \/ /\ ~LockFree(lock)
        /\ Termina(p, "put", FALSE, "Busy", 0)
        /\ UNCHANGED db
  /\ UNCHANGED <<lock, nops>>
  /\ UNCHANGED ventana

\* a delete that removes the row when it is the last of the table
DesactivaProducto_fisico(d, producto_id) ==
  IF ExisteProducto(d, producto_id)
  THEN IF producto_id = Len(d.productos)
       THEN [d EXCEPT !.productos = SubSeq(@, 1, producto_id - 1)]
       ELSE [d EXCEPT !.productos[producto_id].activo = FALSE]
  ELSE d

\* UPDATE productos SET activo = 0 WHERE id = ? (no row: nothing changes)
DesactivaProducto(d, producto_id) ==
  IF ExisteProducto(d, producto_id)
  THEN [d EXCEPT !.productos[producto_id].activo = FALSE]
  ELSE d

\* DELETE /api/producto/<id>: clears the active flag
api_producto_DELETE(p) ==
  /\ Llega(p)
  /\ \E producto_id \in IdsProducto :
       \/ /\ LockFree(lock)
          /\ db' = DesactivaProducto(db, producto_id)
          /\ Termina(p, "delete", TRUE, "", producto_id)
       \/ /\ ~LockFree(lock)
          /\ Termina(p, "delete", FALSE, "Busy", 0)
          /\ UNCHANGED db
  /\ nops' = nops + 1
  /\ UNCHANGED lock
  /\ UNCHANGED ventana

\* ---- actualizar_stock_producto ---------------------------------------------------
\* SELECT stock_actual: read outside any transaction
actualizar_stock_producto(p) ==
  /\ Llega(p)
  /\ \E producto_id \in IdsProducto, cantidad_sumar \in Ajustes :
       IF ExisteProducto(db, producto_id)
       THEN /\ args' = [args EXCEPT ![p] = [op |-> "stock",
                          producto_id |-> producto_id, cantidad_sumar |-> cantidad_sumar]]
            /\ loc' = [loc EXCEPT ![p] = [op |-> "stock",
                          stock_anterior |-> db.productos[producto_id].stock_actual]]
            /\ pc' = [pc EXCEPT ![p] = "stock_update"]
            /\ UNCHANGED res
       ELSE Termina(p, "stock", FALSE, "NotFound", 0)
  /\ nops' = nops + 1
  /\ UNCHANGED <<db, lock>>
  /\ UNCHANGED ventana

\* UPDATE stock_actual, the movement row, commit
stock_update(p) ==
  /\ pc[p] = "stock_update"
  /\ \/ /\ LockFree(lock)
        /\ LET producto_id == args[p].producto_id
               stock_anterior == loc[p].stock_anterior
               stock_nuevo == stock_anterior + args[p].cantidad_sumar
           IN /\ db' = [db EXCEPT
                   !.productos[producto_id].stock_actual = stock_nuevo,
                   !.movimientos = Append(@, Movimiento(producto_id, "entrada",
                        args[p].cantidad_sumar, stock_anterior, stock_nuevo,
                        <<"Compra de inventario", 0>>))]
              /\ Termina(p, "stock", TRUE, "", stock_nuevo)
     \/ /\ ~LockFree(lock)
        /\ Termina(p, "stock", FALSE, "Busy", 0)
        /\ UNCHANGED db
  /\ UNCHANGED <<lock, nops>>
  /\ UNCHANGED ventana

\* ---- registrar_movimiento_inventario without a cursor ------------------------------
\* the row a direct caller asks for: an entry of 4 units for product 1, 5 -> 9
MovimientosSueltos == {Movimiento(1, "entrada", 4, 5, 9, <<"Ajuste", 0>>)}

\* cursor=None: the method opens a connection of its own, inserts the row and
\* commits it
registrar_movimiento_inventario(p) ==
  /\ Llega(p)
  /\ \E m \in MovimientosSueltos :
       \/ /\ LockFree(lock)
          /\ db' = [db EXCEPT !.movimientos = Append(@, m)]
          /\ Termina(p, "movimiento", TRUE, "", m.producto_id)
       \/ /\ ~LockFree(lock)
          /\ Termina(p, "movimiento", FALSE, "Busy", 0)
          /\ UNCHANGED db
  /\ nops' = nops + 1
  /\ UNCHANGED lock
  /\ UNCHANGED ventana

\* ---- the system --------------------------------------------------------------------
Next ==
  \E p \in Procs :
    \/ api_crear_venta(p)
    \/ venta_begin(p)
    \/ venta_body(p)
    \/ venta_pagos(p)
    \/ compra_llega(p)
    \/ compra_begin(p)
    \/ compra_body(p)
    \/ api_tasa_cambio(p)
    \/ tasa_config(p)
    \/ tasa_recalc(p)
    \/ api_crear_producto(p)
    \/ crear_insert(p)
    \/ api_producto_PUT(p)
    \/ put_update(p)
    \/ api_producto_DELETE(p)
    \/ actualizar_stock_producto(p)
    \/ stock_update(p)
    \/ registrar_movimiento_inventario(p)

Spec == Init /\ [][Next]_vars

\* ---- sales and purchases alone, on a catalogue of two products -------------------------
\* a second product registered without scan code, purchase cost or stock
FormularioSinCosto ==
  [codigo_barras |-> "", precio_venta_usd |-> 1000, precio_compra_usd |-> 0,
   stock_actual |-> 0]

TiendaTx ==
  InsertaProducto(TiendaInicial, FormularioSinCosto, get_tasa_cambio(TiendaInicial))

InitTx ==
  /\ db = TiendaTx
  /\ lock = {}
  /\ pc = [p \in Procs |-> "idle"]
  /\ args = [p \in Procs |-> NoArgs]
  /\ loc = [p \in Procs |-> NoLoc]
  /\ res = [p \in Procs |-> NoRes]
  /\ nops = 0
  /\ ventana = BackupWindow

NextTx ==
  \E p \in Procs :
    \/ api_crear_venta(p)
    \/ venta_begin(p)
    \/ venta_body(p)
    \/ venta_pagos(p)
    \/ compra_llega(p)
    \/ compra_begin(p)
    \/ compra_body(p)

SpecTx == InitTx /\ [][NextTx]_vars

\* sales and purchases alone, on the catalogue of one product
SpecUno == Init /\ [][NextTx]_vars

\* ---- start of another process on the same store ------------------------------------------
\* db = DatabaseManager(): the constructor runs init_database on the store as
\* it is; on an initialized store it reads and writes no row
DatabaseManager(p) ==
  /\ Llega(p)
  /\ db' = init_database(db)
  /\ Termina(p, "init", TRUE, "", 0)
  /\ nops' = nops + 1
  /\ UNCHANGED lock
  /\ UNCHANGED ventana

\* sales and rate changes on the catalogue of one product, with process starts
NextArranque ==
  \E p \in Procs :
    \/ api_crear_venta(p)
    \/ venta_begin(p)
    \/ venta_body(p)
    \/ venta_pagos(p)
    \/ api_tasa_cambio(p)
    \/ tasa_config(p)
    \/ tasa_recalc(p)
    \/ DatabaseManager(p)

SpecArranque == Init /\ [][NextArranque]_vars

\* ---- vocabulary of the properties ----------------------------------------------------------
Productos == 1..Len(db.productos)

\* stock change a movement row stands for: its kind carries the sign
Delta(m) == IF m.tipo_movimiento = "salida" THEN -m.cantidad ELSE m.cantidad

RECURSIVE SumaDeltas(_, _)
SumaDeltas(movs, i) ==
  IF movs = <<>> THEN 0
  ELSE (IF Head(movs).producto_id = i THEN Delta(Head(movs)) ELSE 0)
       + SumaDeltas(Tail(movs), i)

MovsDe(movs, i) == SelectSeq(movs, LAMBDA m : m.producto_id = i)

\* movement rows written since the store TiendaTx
MovsTx ==
  SubSeq(db.movimientos, Len(TiendaTx.movimientos) + 1, Len(db.movimientos))

RECURSIVE SumaCantidades(_, _)
SumaCantidades(lineas, i) ==
  IF lineas = <<>> THEN 0
  ELSE (IF Head(lineas).producto_id = i THEN Head(lineas).cantidad ELSE 0)
       + SumaCantidades(Tail(lineas), i)

\* thread p finishes a request in this step
Acaba(p) == (pc[p] # "idle" /\ pc'[p] = "idle") \/ res'[p] # res[p]

\* C1: under SpecTx (committed sales and purchases only) every product's stock
\* equals the stock it had before the sequence plus the deltas of the movement
\* rows written since: purchase quantities added, sale quantities subtracted.
C1_StockMasLedger ==
  \A i \in Productos :
    db.productos[i].stock_actual =
      TiendaTx.productos[i].stock_actual + SumaDeltas(MovsTx, i)

\* a sale and a purchase of product 1 have both committed
C1_Witness ==
  /\ \A p \in Procs : pc[p] = "idle"
  /\ \E k \in 1..Len(MovsTx) :
       MovsTx[k].producto_id = 1 /\ MovsTx[k].tipo_movimiento = "salida"
  /\ \E k \in 1..Len(MovsTx) :
       MovsTx[k].producto_id = 1 /\ MovsTx[k].tipo_movimiento = "entrada"
  /\ db.productos[1].stock_actual = 12

\* C2 (as claimed): in every reachable state each product's stock equals the sum
\* of all movement rows written for it since its creation.
C2_StockEsLedger ==
  \A i \in Productos :
    db.productos[i].stock_actual = SumaDeltas(db.movimientos, i)

\* C3: when two sale requests served by different threads have both committed and
\* nothing else was committed, two sale headers exist, each product's stock is its
\* earlier stock minus the quantities of both carts, there is one 'salida' row per
\* cart line, and each row's quantity-before is the previous row's quantity-after.
DosVentas ==
  /\ \A p \in Procs : res[p].op = "venta" /\ res[p].ok
  /\ db.compras = <<>>
  /\ Len(db.ventas) <= 2

C3_VentasSerializadas ==
  DosVentas =>
    /\ Len(db.ventas) = 2
    /\ {res[p].val : p \in Procs} = {1, 2}
    /\ \A i \in Productos :
         LET M == MovsDe(MovsTx, i)
             L == SelectSeq(db.detalle_ventas, LAMBDA l : l.producto_id = i)
         IN /\ db.productos[i].stock_actual =
                 TiendaTx.productos[i].stock_actual - SumaCantidades(L, i)
            /\ Len(M) = Len(L)
            /\ \A k \in 1..Len(M) : M[k].tipo_movimiento = "salida"
            /\ Len(M) > 0 => M[1].cantidad_anterior = TiendaTx.productos[i].stock_actual
            /\ \A k \in 1..(Len(M) - 1) :
                 M[k + 1].cantidad_anterior = M[k].cantidad_nueva

\* stock 5, two sales of 3 from two threads: stock -1 and two chained rows
C3_Witness ==
  /\ DosVentas
  /\ db.productos[1].stock_actual = -1
  /\ Len(MovsDe(MovsTx, 1)) = 2
  /\ MovsDe(MovsTx, 1)[1].cantidad_nueva = 2
  /\ MovsDe(MovsTx, 1)[2].cantidad_anterior = 2

\* C4: a crear_venta whose cart names a product that does not exist fails, and
\* the step that ends it leaves the whole store as it was: no header, no line,
\* no stock change, no movement row.
LineaSinProducto(p) ==
  \E k \in 1..Len(args[p].items) : ~ExisteProducto(db, args[p].items[k].producto_id)

C4_VentaFallidaSinRastro ==
  [][\A p \in Procs :
       (pc[p] = "venta_body" /\ LineaSinProducto(p) /\ Acaba(p))
         => (~res'[p].ok /\ db' = db)]_vars

\* a cart failed on its second line, after a line for an existing product, and
\* the store holds no sale
C4_Witness ==
  \E p \in Procs :
    /\ res[p] = Resultado("venta", FALSE, "NotFound", 2)
    /\ db = TiendaInicial

\* C5: an empty cart never reaches crear_venta; the request ends with EmptyCart
\* and the store is unchanged.
C5_CarritoVacio ==
  [][\A p \in Procs :
       /\ pc'[p] \in {"venta_begin", "venta_body"} => args'[p].items # <<>>
       /\ (Acaba(p) /\ res'[p].err = "EmptyCart")
            => (~res'[p].ok /\ res'[p].op = "venta" /\ db' = db)
       /\ \A v \in 1..Len(db'.ventas) :
            \E k \in 1..Len(db'.detalle_ventas) : db'.detalle_ventas[k].venta_id = v]_vars

C5_Witness ==
  \E p \in Procs :
    /\ res[p] = Resultado("venta", FALSE, "EmptyCart", 0)
    /\ db.ventas = <<>>
    /\ db.movimientos = TiendaInicial.movimientos

C7_PrecioDerivado ==
  \A i \in Productos :
    LET f == db.productos[i]
    IN /\ f.precio_venta_usd # NULL
            => f.precio_venta = Round2(f.precio_venta_usd * f.tasa_camb)
       /\ f.precio_compra_usd # NULL
            => f.precio_compra = Round2(f.precio_compra_usd * f.tasa_camb)

\* C8 (as claimed): when a rate change to r ends successfully, every product with
\* a base sell price has precio_venta = round(precio_venta_usd * r, 2) and
\* tasa_camb = r.
C8_TodosRecalculados ==
  [][\A p \in Procs :
       (pc[p] = "tasa_recalc" /\ Acaba(p) /\ res'[p].ok)
         => \A i \in 1..Len(db'.productos) :
              LET f == db'.productos[i]
              IN f.precio_venta_usd # NULL
                   => /\ f.precio_venta = Round2(f.precio_venta_usd * args[p].nueva_tasa)
                      /\ f.tasa_camb = args[p].nueva_tasa]_vars

\* C9 (as claimed): the stored rate and the recomputed prices change in one
\* commit: a step that changes the stored rate leaves every product that the
\* recomputation covers priced with the new rate.
C9_TasaYPreciosJuntos ==
  [][db'.tasa # db.tasa
       => \A i \in 1..Len(db'.productos) :
            db'.productos[i] = RecalculaFila(db'.productos[i], db'.tasa)]_vars

\* C10: a rate <= 0 posted to the rate endpoint is rejected as invalid, and the
\* stored rate and every product row stay as they were.
C10_TasaInvalida ==
  [][\A p \in Procs :
       (Acaba(p) /\ res'[p].op = "tasa" /\ res'[p].val <= 0)
         => /\ ~res'[p].ok /\ res'[p].err = "Invalid"
            /\ db'.tasa = db.tasa /\ db'.productos = db.productos]_vars

C10_Witness ==
  \E p \in Procs :
    /\ res[p].op = "tasa" /\ res[p].err = "Invalid" /\ res[p].val <= 0
    /\ db.tasa = TasaInicial
    /\ db.productos = TiendaInicial.productos

\* C11: setRate is idempotent on the catalog: from any store, after
\* actualizar_tasa_cambio(r) a second actualizar_tasa_cambio(get_tasa_cambio())
\* leaves the stored rate and every product row as the first call left them.
C11_TasaIdempotente ==
  \A r \in {t \in TasasNuevas : TasaValida(t)} :
    LET d1 == actualizar_tasa_cambio(db, r)
    IN actualizar_tasa_cambio(d1, get_tasa_cambio(d1)) = d1

\* both threads have changed the rate to 40.00, one after the other, and the
\* store is what the first change left
C11_Witness ==
  /\ \A p \in Procs : res[p] = Resultado("tasa", TRUE, "", 4000)
  /\ db = actualizar_tasa_cambio(TiendaInicial, 4000)
  /\ db.productos[1].precio_venta = 40000

\* C12: crear_venta never rejects a sale for lack of stock: when every line of
\* the cart names an existing product the sale commits, and each product's stock
\* becomes its previous stock minus the quantities sold, below zero if need be.
C12_SinRechazoPorStock ==
  [][\A p \in Procs :
       (pc[p] = "venta_body" /\ Acaba(p) /\ ~LineaSinProducto(p))
         => /\ res'[p].ok /\ res'[p].err = ""
            /\ \A i \in Productos :
                 db'.productos[i].stock_actual =
                   db.productos[i].stock_actual - SumaCantidades(args[p].items, i)]_vars

\* a sale of 3 units of a product with stock 0 has committed: stock -3
C12_Witness ==
  /\ \E p \in Procs : res[p].op = "venta" /\ res[p].ok
  /\ db.productos[2].stock_actual = -3
  /\ \E k \in 1..Len(db.movimientos) :
       db.movimientos[k] = Movimiento(2, "salida", 3, 0, -3, <<"Venta #", 1>>)

\* lines stored for sale v
LineasDe(v) == SelectSeq(db.detalle_ventas, LAMBDA l : l.venta_id = v)

\* sum of quantity * unit price over stored sale lines
RECURSIVE SumaImportes(_)
SumaImportes(lineas) ==
  IF lineas = <<>> THEN 0
  ELSE Head(lineas).cantidad * Head(lineas).precio_unitario + SumaImportes(Tail(lineas))

\* C13: every committed sale stores subtotal = sum over its lines of
\* quantity * unit price as the caller gave it, and total = subtotal + tax -
\* discount.
C13_TotalesDeVenta ==
  \A v \in 1..Len(db.ventas) :
    /\ db.ventas[v].subtotal = SumaImportes(LineasDe(v))
    /\ \A k \in 1..Len(LineasDe(v)) :
         LineasDe(v)[k].subtotal = LineasDe(v)[k].cantidad * LineasDe(v)[k].precio_unitario
    /\ db.ventas[v].total =
         db.ventas[v].subtotal + db.ventas[v].impuesto - db.ventas[v].descuento

\* 2 units at 400.00 sold without charges (total 800.00) and the same cart sold
\* with tax 128.00 and discount 10.00 (total 918.00)
C13_Witness ==
  /\ Len(db.ventas) = 2
  /\ \E v \in 1..2 : db.ventas[v].total = 80000 /\ Len(LineasDe(v)) = 1
  /\ \E v \in 1..2 :
       /\ db.ventas[v].subtotal = 80000 /\ db.ventas[v].impuesto = 12800
       /\ db.ventas[v].descuento = 1000 /\ db.ventas[v].total = 91800

\* the rows a table gained in this step, given that it kept the ones it had
Nuevas(antes, despues) == SubSeq(despues, Len(antes) + 1, Len(despues))

Conserva(antes, despues) ==
  /\ Len(despues) >= Len(antes)
  /\ SubSeq(despues, 1, Len(antes)) = antes

\* C14: a committing crear_venta adds one header, and for each cart line, in
\* order, one sale line and one 'salida' movement of that line's product with
\* motivo "Venta #<id>" of the sale just created; each product's stock drops by
\* the quantities of its lines; no other movement is written and nothing else
\* of any product row changes.
C14_EfectoDeVenta ==
  [][\A p \in Procs :
       (pc[p] = "venta_body" /\ Acaba(p) /\ res'[p].ok)
         => LET items == args[p].items
                id == Len(db.ventas) + 1
                L == Nuevas(db.detalle_ventas, db'.detalle_ventas)
                M == Nuevas(db.movimientos, db'.movimientos)
            IN /\ res'[p].val = id
               /\ Len(db'.ventas) = id
               /\ Conserva(db.ventas, db'.ventas)
               /\ Conserva(db.detalle_ventas, db'.detalle_ventas)
               /\ Conserva(db.movimientos, db'.movimientos)
               /\ Len(L) = Len(items) /\ Len(M) = Len(items)
               /\ \A k \in 1..Len(items) :
                    /\ L[k].venta_id = id
                    /\ L[k].producto_id = items[k].producto_id
                    /\ L[k].cantidad = items[k].cantidad
                    /\ M[k].producto_id = items[k].producto_id
                    /\ M[k].tipo_movimiento = "salida"
                    /\ M[k].cantidad = items[k].cantidad
                    /\ M[k].cantidad_nueva = M[k].cantidad_anterior - items[k].cantidad
                    /\ M[k].motivo = <<"Venta #", id>>
               /\ Len(db'.productos) = Len(db.productos)
               /\ \A i \in Productos :
                    db'.productos[i] =
                      [db.productos[i] EXCEPT !.stock_actual =
                         @ - SumaCantidades(items, i)]
               /\ db'.compras = db.compras
               /\ db'.detalle_compras = db.detalle_compras]_vars

\* a cart with a line for product 1 and a line for product 2 has committed as
\* sale 1: two sale lines and two movements "Venta #1", one per product
C14_Witness ==
  /\ \E p \in Procs : res[p] = Resultado("venta", TRUE, "", 1)
  /\ Len(db.ventas) = 1
  /\ Len(db.detalle_ventas) = 2
  /\ {db.detalle_ventas[k].producto_id : k \in 1..2} = {1, 2}
  /\ Len(MovsTx) = 2
  /\ \A k \in 1..2 : MovsTx[k].motivo = <<"Venta #", 1>>

\* a purchase order has a line for product i
CompraToca(items, i) == \E k \in 1..Len(items) : items[k].producto_id = i

\* C15: a committing crear_compra adds one header, and for each order line, in
\* order, one purchase line whose local unit cost is foreign unit cost * purchase
\* rate (rounded to cents) and one 'entrada' movement with motivo "Compra #<id>"; every product
\* bought gets that foreign cost, that local cost and the purchase rate as its
\* tasa_camb, and its stock grows by the quantities bought; other products keep
\* their rows.
C15_EfectoDeCompra ==
  [][\A p \in Procs :
       (pc[p] = "compra_body" /\ Acaba(p) /\ res'[p].ok)
         => LET items == args[p].items
                tasa == args[p].tasa_cambio
                id == Len(db.compras) + 1
                L == Nuevas(db.detalle_compras, db'.detalle_compras)
                M == Nuevas(db.movimientos, db'.movimientos)
            IN /\ res'[p].val = id
               /\ Len(db'.compras) = id
               /\ db'.compras[id].tasa_cambio = tasa
               /\ Conserva(db.compras, db'.compras)
               /\ Conserva(db.detalle_compras, db'.detalle_compras)
               /\ Conserva(db.movimientos, db'.movimientos)
               /\ Len(L) = Len(items) /\ Len(M) = Len(items)
               /\ \A k \in 1..Len(items) :
                    /\ L[k].compra_id = id
                    /\ L[k].producto_id = items[k].producto_id
                    /\ L[k].cantidad = items[k].cantidad
                    /\ L[k].precio_unitario_usd = items[k].precio_unitario_usd
                    /\ L[k].precio_unitario_ves =
                         Round2(items[k].precio_unitario_usd * tasa)
                    /\ M[k].producto_id = items[k].producto_id
                    /\ M[k].tipo_movimiento = "entrada"
                    /\ M[k].cantidad = items[k].cantidad
                    /\ M[k].cantidad_nueva = M[k].cantidad_anterior + items[k].cantidad
                    /\ M[k].motivo = <<"Compra #", id>>
                    /\ db'.productos[items[k].producto_id].precio_compra_usd =
                         items[k].precio_unitario_usd
                    /\ db'.productos[items[k].producto_id].precio_compra =
                         Round2(items[k].precio_unitario_usd * tasa)
                    /\ db'.productos[items[k].producto_id].tasa_camb = tasa
               /\ Len(db'.productos) = Len(db.productos)
               /\ \A i \in Productos :
                    /\ db'.productos[i].stock_actual =
                         db.productos[i].stock_actual + SumaCantidades(items, i)
                    /\ ~CompraToca(items, i) => db'.productos[i] = db.productos[i]
                    /\ db'.productos[i].precio_venta = db.productos[i].precio_venta
                    /\ db'.productos[i].precio_venta_usd = db.productos[i].precio_venta_usd
               /\ db'.ventas = db.ventas
               /\ db'.detalle_ventas = db.detalle_ventas]_vars

\* 10 units at 8.00 bought at rate 40.00 for the product with stock 5: local
\* cost 320.00, cost fields (8.00, 320.00), tasa_camb 40.00, stock 15
C15_Witness ==
  /\ \E p \in Procs : res[p] = Resultado("compra", TRUE, "", 1)
  /\ Len(db.detalle_compras) = 1
  /\ db.detalle_compras[1].precio_unitario_ves = 32000
  /\ db.productos[1].precio_compra_usd = 800
  /\ db.productos[1].precio_compra = 32000
  /\ db.productos[1].tasa_camb = 4000
  /\ db.productos[1].stock_actual = 15
  /\ MovsTx = <<Movimiento(1, "entrada", 10, 5, 15, <<"Compra #", 1>>)>>

\* C16: a crear_compra whose order names a product that does not exist fails,
\* and the step that ends it leaves the whole store as it was: no header, no
\* purchase line, no cost or stock change, no movement, also for the lines that
\* came before the missing product.
C16_CompraFallidaSinRastro ==
  [][\A p \in Procs :
       (pc[p] = "compra_body" /\ LineaSinProducto(p) /\ Acaba(p))
         => (~res'[p].ok /\ db' = db)]_vars

\* an order failed on its second line, after a line for the existing product,
\* and the store holds no purchase and the product its old cost and stock
C16_Witness ==
  /\ \E p \in Procs : res[p] = Resultado("compra", FALSE, "NotFound", 2)
  /\ \A p \in Procs : res[p].op \in {"none", "compra"} /\ pc[p] = "idle"
  /\ db = TiendaInicial

\* C17 (as claimed): the step that commits a new product with initial stock > 0
\* also commits exactly one 'entrada' movement for it, from 0 to that stock, and
\* no product is committed with a stock other than 0 and no movement.
C17_StockInicialEnLedger ==
  [][\A p \in Procs :
       (pc[p] = "crear_insert" /\ Acaba(p) /\ res'[p].ok)
         => LET id == res'[p].val
                stock == db'.productos[id].stock_actual
                M == Nuevas(db.movimientos, db'.movimientos)
            IN /\ Conserva(db.movimientos, db'.movimientos)
               /\ stock > 0 =>
                    M = <<Movimiento(id, "entrada", stock, 0, stock, <<"Stock inicial", 0>>)>>
               /\ stock # 0 => MovsDe(M, id) # <<>>]_vars

\* C18 (as claimed): a step that ends a product update (PUT) or a soft delete
\* leaves the stock of every product as it was.
C18_SinCambioDeStock ==
  [][\A p \in Procs :
       (Acaba(p) /\ res'[p].op \in {"put", "delete"})
         => /\ Len(db'.productos) = Len(db.productos)
            /\ \A i \in Productos :
                 db'.productos[i].stock_actual = db.productos[i].stock_actual]_vars

\* C19 (as claimed): sales, purchases, rate changes and product creations with
\* initial stock each run in one transaction that holds the write lock from
\* before its first read, so nothing another request commits can come between
\* what such an operation read or wrote first and its commit:
\*  - the rate a product creation read is still the stored rate when its row is
\*    committed;
\*  - the rate a rate change stored is still the stored rate when its
\*    recomputation is committed;
\*  - the store a sale or purchase commits on is the one it started from.
C19_TransaccionUnica ==
  [][\A p \in Procs :
       /\ (pc[p] = "crear_insert" /\ Acaba(p) /\ res'[p].ok
             /\ args[p].data.stock_actual > 0)
            => loc[p].tasa = get_tasa_cambio(db)
       /\ (pc[p] = "tasa_recalc" /\ Acaba(p) /\ res'[p].ok)
            => db.tasa = args[p].nueva_tasa
       /\ (pc[p] \in {"venta_body", "compra_body"} /\ Acaba(p))
            => db = loc[p].snap]_vars

\* movement rows written for document `motivo` ("Venta #v" or "Compra #c")
MovsDeDocumento(motivo) == SelectSeq(db.movimientos, LAMBDA m : m.motivo = motivo)

ComprasDe(c) == SelectSeq(db.detalle_compras, LAMBDA l : l.compra_id = c)

\* C20: what a plain read (get_productos, buscar_productos, get_tasa_cambio,
\* get_venta_detalle) finds in the store is complete in every state: while a
\* sale or a purchase is in flight the store is the one it started from, and the
\* store never holds a sale header without its lines, a line without its header,
\* a line without its movement, or a stock that differs from its ledger.
C20_LecturaCompleta ==
  /\ \A p \in Procs : pc[p] \in {"venta_body", "compra_body"} => db = loc[p].snap
  /\ \A v \in 1..Len(db.ventas) :
       /\ LineasDe(v) # <<>>
       /\ Len(MovsDeDocumento(<<"Venta #", v>>)) = Len(LineasDe(v))
  /\ \A c \in 1..Len(db.compras) :
       Len(MovsDeDocumento(<<"Compra #", c>>)) = Len(ComprasDe(c))
  /\ \A k \in 1..Len(db.detalle_ventas) :
       db.detalle_ventas[k].venta_id \in 1..Len(db.ventas)
  /\ \A k \in 1..Len(db.detalle_compras) :
       db.detalle_compras[k].compra_id \in 1..Len(db.compras)
  /\ \A i \in Productos :
       db.productos[i].stock_actual = SumaDeltas(db.movimientos, i)

\* a sale is in flight while the store holds the complete sale committed before
\* it: header 1, its two lines, its two movements
C20_Witness ==
  /\ \E p \in Procs : pc[p] = "venta_body" /\ p \in lock
  /\ Len(db.ventas) = 1
  /\ Len(LineasDe(1)) = 2
  /\ Len(MovsDeDocumento(<<"Venta #", 1>>)) = 2
  /\ db.productos[1].stock_actual < 5

\* C21 (as claimed): a request that cannot take the write lock within the timeout
\* ends with Busy, and none of its writes is committed: the step that ends it
\* with Busy changes nothing in the store, and the request committed nothing
\* before that step (a step that leaves a request unfinished, so that it can
\* still end with Busy, leaves the store as it was).  One call makes one attempt:
\* the Busy step ends the request.
C21_BusySinEscrituras ==
  [][\A p \in Procs :
       /\ (Acaba(p) /\ res'[p].err = "Busy")
            => (~res'[p].ok /\ db' = db /\ pc'[p] = "idle")
       /\ (pc[p] # "idle" /\ pc'[p] # "idle" /\ <<pc'[p], loc'[p]>> # <<pc[p], loc[p]>>)
            => db' = db]_vars

\* C22 (as claimed): a sale request with payments is all-or-nothing: when the
\* registration of one of its payments fails, the store holds no header, no
\* line, no movement and no payment of that sale.
C22_VentaYPagosJuntos ==
  [][\A p \in Procs :
       (pc[p] = "venta_pagos" /\ Acaba(p) /\ ~res'[p].ok)
         => LET venta_id == loc[p].venta_id
            IN /\ venta_id \notin 1..Len(db'.ventas)
               /\ \A k \in 1..Len(db'.detalle_ventas) :
                    db'.detalle_ventas[k].venta_id # venta_id
               /\ \A k \in 1..Len(db'.movimientos) :
                    db'.movimientos[k].motivo # <<"Venta #", venta_id>>
               /\ \A k \in 1..Len(db'.pagos) : db'.pagos[k].venta_id # venta_id]_vars

\* C23: the movement, sale, sale line, purchase, purchase line and payment tables
\* are append-only: every step of every operation leaves each row these tables
\* held in place with its values, and may only add rows after them.
C23_SoloAgrega ==
  [][/\ Conserva(db.movimientos, db'.movimientos)
     /\ Conserva(db.ventas, db'.ventas)
     /\ Conserva(db.detalle_ventas, db'.detalle_ventas)
     /\ Conserva(db.compras, db'.compras)
     /\ Conserva(db.detalle_compras, db'.detalle_compras)
     /\ Conserva(db.pagos, db'.pagos)]_vars

\* sale 1 committed with its line, movement and payment, and a purchase
\* committed after it: the rows of the sale are still there
C23_Witness ==
  /\ \A p \in Procs : pc[p] = "idle"
  /\ Len(db.ventas) = 1 /\ Len(db.detalle_ventas) = 1 /\ Len(db.pagos) = 1
  /\ db.pagos[1].venta_id = 1
  /\ Len(db.compras) = 1 /\ Len(db.detalle_compras) >= 1
  /\ Len(db.movimientos) >= 3
  /\ db.movimientos[2].motivo = <<"Venta #", 1>>
  /\ db.movimientos[3].motivo = <<"Compra #", 1>>

\* C24: stored sale lines are frozen: no step of any operation (rate change,
\* product update, purchase, or any other) changes the unit price or the
\* subtotal of a sale line already in the store, nor the subtotal or total of a
\* sale already in the store.
C24_LineasCongeladas ==
  [][/\ \A k \in 1..Len(db.detalle_ventas) :
          /\ k <= Len(db'.detalle_ventas)
          /\ db'.detalle_ventas[k].precio_unitario = db.detalle_ventas[k].precio_unitario
          /\ db'.detalle_ventas[k].subtotal = db.detalle_ventas[k].subtotal
     /\ \A v \in 1..Len(db.ventas) :
          /\ v <= Len(db'.ventas)
          /\ db'.ventas[v].subtotal = db.ventas[v].subtotal
          /\ db'.ventas[v].total = db.ventas[v].total]_vars

\* one thread sold 2 units at 400.00 with tax and discount (total 918.00) and
\* then changed the rate to 40.00: the product is repriced from 365.00 to
\* 400.00 and the sale keeps its line and its totals
C24_Witness ==
  \E p \in Procs :
    /\ res[p] = Resultado("tasa", TRUE, "", 4000)
    /\ \A q \in Procs \ {p} : res[q] = NoRes /\ pc[q] = "idle"
    /\ Len(db.ventas) = 1
    /\ db.ventas[1].subtotal = 80000 /\ db.ventas[1].total = 91800
    /\ db.detalle_ventas[1].precio_unitario = 40000
    /\ db.detalle_ventas[1].subtotal = 80000
    /\ db.productos[1].precio_venta = 40000
    /\ db.productos[1].tasa_camb = 4000

\* C25 (as claimed): the stored rate changes only in a step of a rate-change
\* request, and whenever a rate-change request completes, with success or with
\* an error, and no other rate change is in flight, the stored rate is the rate
\* the catalog was last recomputed with: every product the recomputation covers
\* has its sell price derived from the stored rate.
C25_TasaSoloPorSetRate ==
  [][/\ db'.tasa # db.tasa => \E p \in Procs : pc[p] = "tasa_config" /\ pc'[p] # pc[p]
     /\ \A p \in Procs :
          (/\ Acaba(p) /\ res'[p].op = "tasa"
           /\ \A q \in Procs : pc'[q] \notin {"tasa_config", "tasa_recalc"})
            => \A i \in 1..Len(db'.productos) :
                 LET f == db'.productos[i]
                 IN (f.precio_venta_usd # NULL /\ f.precio_compra_usd # NULL)
                      => f.precio_venta = Round2(f.precio_venta_usd * db'.tasa)]_vars

C27_CodigoDuplicado ==
  [][\A p \in Procs :
       (/\ pc[p] = "crear_insert" /\ Acaba(p)
        /\ args[p].data.codigo_barras # ""
        /\ \E i \in Productos :
             /\ db.productos[i].activo
             /\ db.productos[i].codigo_barras = args[p].data.codigo_barras)
         => /\ ~res'[p].ok
            /\ LockFree(lock) => res'[p].err = "Duplicate"
            /\ db' = db]_vars

\* a form with scan code "A" was refused while product 1, active, has that code:
\* the store is the initial one
C27_Witness ==
  \E p \in Procs :
    /\ res[p] = Resultado("crear", FALSE, "Duplicate", 0)
    /\ db = TiendaInicial
    /\ db.productos[1].activo /\ db.productos[1].codigo_barras = "A"

\* a line of the request of p names a product whose row is inactive
LineaInactiva(p) ==
  \E k \in 1..Len(args[p].items) :
    /\ ExisteProducto(db, args[p].items[k].producto_id)
    /\ ~db.productos[args[p].items[k].producto_id].activo

\* C28 (as claimed): a sale or a purchase with a line for a soft-deleted
\* (inactive) product fails with NotFound, and the step that runs it leaves the
\* whole store (stock, ledger, sale and purchase tables) as it was.
C28_InactivoNoEncontrado ==
  [][\A p \in Procs :
       (pc[p] \in {"venta_body", "compra_body"} /\ pc'[p] # pc[p] /\ LineaInactiva(p))
         => /\ pc'[p] = "idle"
            /\ ~res'[p].ok /\ res'[p].err = "NotFound"
            /\ db' = db]_vars

\* C29 (as claimed): a movement row is never committed on its own: every step
\* that adds rows to the ledger is the commit of a caller's unit of work (a
\* sale, a purchase, a product creation or a stock adjustment), which writes the
\* product row the movement belongs to in the same step.
C29_MovimientoConSuTransaccion ==
  [][Len(db'.movimientos) > Len(db.movimientos)
       => \E p \in Procs :
            /\ pc[p] \in {"venta_body", "compra_body", "crear_insert", "stock_update"}
            /\ pc'[p] # pc[p]
            /\ \A k \in (Len(db.movimientos) + 1)..Len(db'.movimientos) :
                 LET i == db'.movimientos[k].producto_id
                 IN i \notin Productos \/ db'.productos[i] # db.productos[i]]_vars

\* C30: schema creation is idempotent: init_database run on the store of any
\* reachable state leaves every row of every table as it was, the stored rate
\* included (it is not set back to the seed), also while a sale or a rate change
\* is in flight; run on a file that was never initialized it yields the store
\* after construction, and a second run changes nothing more.
C30_InitIdempotente ==
  [][/\ \A p \in Procs :
          (Acaba(p) /\ res'[p].op = "init") => (res'[p].ok /\ db' = db)
     /\ init_database(init_database(ArchivoVacio)) = init_database(ArchivoVacio)
     /\ init_database(ArchivoVacio) = insert_initial_data]_vars

\* one thread changed the rate to 40.00 and then started the database manager
\* again, the other thread did nothing: the rate is still 40.00 and the product
\* is priced with it
C30_Witness ==
  \E p \in Procs :
    /\ res[p] = Resultado("init", TRUE, "", 0)
    /\ \A q \in Procs \ {p} : res[q] = NoRes /\ pc[q] = "idle"
    /\ db.tasa = 4000
    /\ db.productos[1].precio_venta = 40000
    /\ db.productos[1].tasa_camb = 4000
    /\ db.movimientos = TiendaInicial.movimientos

\* C31 (as claimed): the normalized amount stored with a payment is its
\* local-currency equivalent at the payment's own rate: the amount itself for a
\* payment in VES, amount * rate for a payment in USD.
C31_EquivalenteLocal ==
  \A k \in 1..Len(db.pagos) :
    LET g == db.pagos[k]
    IN g.monto_equivalente_usd =
         IF g.moneda_pago = "USD" THEN Round2(g.monto_pagado * g.tasa_cambio)
         ELSE g.monto_pagado

\* C31 (amended): the normalized amount stored with a payment is its USD
\* equivalent at the payment's own rate: the amount itself for a payment in
\* USD, amount / rate otherwise (0 when the rate is not positive).  It depends
\* on the payment's amount, currency and rate only, in every state, whatever
\* the stored system rate is or becomes.
C31_EquivalentePropio ==
  \A k \in 1..Len(db.pagos) :
    LET g == db.pagos[k]
    IN g.monto_equivalente_usd =
         IF g.moneda_pago = "USD" THEN g.monto_pagado
         ELSE IF g.tasa_cambio > 0 THEN (g.monto_pagado * 100) \div g.tasa_cambio
         ELSE 0

\* one thread registered a payment of 800.00 VES at rate 40.00 while the system
\* rate was 36.50, and then changed the system rate to 40.00: the payment is
\* stored as 20.00 USD
C31_Witness ==
  \E p \in Procs :
    /\ res[p] = Resultado("tasa", TRUE, "", 4000)
    /\ \A q \in Procs \ {p} : res[q] = NoRes /\ pc[q] = "idle"
    /\ Len(db.pagos) = 1
    /\ db.pagos[1].moneda_pago = "VES" /\ db.pagos[1].tasa_cambio = 4000
    /\ db.pagos[1].monto_pagado = 80000
    /\ db.pagos[1].monto_equivalente_usd = 2000

\* ---------------------------------------------------------------------------
\* Product search (DatabaseManager.buscar_productos)
\*
\* Text values are sequences of characters.  <<>> stands for a column without
\* text (NULL, or the empty string): neither is equal to, nor LIKE-matches, a
\* non-empty term.
Blanco == " "

\* the characters a search term is made of
LetrasTermino == {Blanco, "a", "A", "b"}

\* the length of the longest search term
MaxTermino == 1

Terminos == UNION {[1..n -> LetrasTermino] : n \in 0..MaxTermino}

\* code point of a character: the BINARY collation orders text by it
Ord(c) ==
  CASE c = Blanco -> 32
    [] c = "A" -> 65
    [] c = "a" -> 97
    [] c = "b" -> 98
    [] c = "c" -> 99

\* LIKE folds the case of ASCII letters
Minuscula(c) == IF c = "A" THEN "a" ELSE c

Minusculas(s) == [i \in 1..Len(s) |-> Minuscula(s[i])]

\* str.strip(): drop the leading and trailing blanks
RECURSIVE strip(_)
strip(s) ==
  IF s = <<>> THEN s
  ELSE IF Head(s) = Blanco THEN strip(Tail(s))
  ELSE IF s[Len(s)] = Blanco THEN strip(SubSeq(s, 1, Len(s) - 1))
  ELSE s

Contiene(s, t) ==
  \E i \in 0..(Len(s) - Len(t)) : SubSeq(s, i + 1, i + Len(t)) = t

\* columna LIKE '%termino%' for a term without the wildcards % and _
Like(columna, termino) ==
  /\ columna # <<>>
  /\ Contiene(Minusculas(columna), Minusculas(termino))

\* text comparison of ORDER BY p.nombre
RECURSIVE TextoMenor(_, _)
TextoMenor(s, t) ==
  IF t = <<>> THEN FALSE
  ELSE IF s = <<>> THEN TRUE
  ELSE IF Head(s) # Head(t) THEN Ord(Head(s)) < Ord(Head(t))
  ELSE TextoMenor(Tail(s), Tail(t))

\* the rows of productos a search runs over: code, name, description
FilaBusqueda(codigo_barras, nombre, descripcion, activo) ==
  [codigo_barras |-> codigo_barras, nombre |-> nombre,
   descripcion |-> descripcion, activo |-> activo]

FilasBusqueda ==
  << [codigo_barras |-> <<"A">>, nombre |-> <<"b">>, descripcion |-> <<>>],
     [codigo_barras |-> <<"A", "b">>, nombre |-> <<"a", "b">>, descripcion |-> <<>>],
     [codigo_barras |-> <<>>, nombre |-> <<"c", "a">>, descripcion |-> <<"A">>],
     [codigo_barras |-> <<>>, nombre |-> <<"b", "b">>, descripcion |-> <<"a">>] >>

\* the catalogs searched: up to MaxProd of the rows above, in table order, each
\* active or not; codes are unique and names are distinct
CatalogosBusqueda ==
  {c \in UNION {[1..n -> (1..Len(FilasBusqueda)) \X BOOLEAN] : n \in 0..MaxProd} :
     \A i, j \in 1..Len(c) : i < j => c[i][1] < c[j][1]}

CatalogoDe(c) ==
  [i \in 1..Len(c) |->
     FilaBusqueda(FilasBusqueda[c[i][1]].codigo_barras, FilasBusqueda[c[i][1]].nombre,
                  FilasBusqueda[c[i][1]].descripcion, c[i][2])]

\* rows in ORDER BY (rango, nombre) order: the one arrangement of the ids in
\* which no row comes after a row that ranks behind it
Ordena(d, ids, rango) ==
  CHOOSE s \in [1..Cardinality(ids) -> ids] :
    /\ \A i, j \in 1..Len(s) : i # j => s[i] # s[j]
    /\ \A i, j \in 1..Len(s) :
         i < j =>
           \/ rango[s[i]] < rango[s[j]]
           \/ /\ rango[s[i]] = rango[s[j]]
              /\ ~TextoMenor(d.productos[s[j]].nombre, d.productos[s[i]].nombre)

\* if not termino_limpio
TerminoVacio_nunca(termino_limpio) == FALSE

TerminoVacio(termino_limpio) == termino_limpio = <<>>

\* a first query that keeps the rows whose code equals the term only
QueryExacta_soloIgual(d, t) ==
  LET ids == {i \in 1..Len(d.productos) :
                d.productos[i].activo /\ d.productos[i].codigo_barras = t}
      rango == [i \in ids |-> 1]
  IN Ordena(d, ids, rango)

\* query_exacta: the active rows whose code equals the term or LIKE-matches
\* it, the equal ones first
QueryExacta(d, t) ==
  LET ids == {i \in 1..Len(d.productos) :
                /\ d.productos[i].activo
                /\ \/ d.productos[i].codigo_barras = t
                   \/ Like(d.productos[i].codigo_barras, t)}
      rango == [i \in ids |-> IF d.productos[i].codigo_barras = t THEN 1 ELSE 2]
  IN Ordena(d, ids, rango)

\* query_general: the active rows whose name, description or code
\* LIKE-matches the term
QueryGeneral(d, t) ==
  LET ids == {i \in 1..Len(d.productos) :
                /\ d.productos[i].activo
                /\ \/ Like(d.productos[i].nombre, t)
                   \/ Like(d.productos[i].descripcion, t)
                   \/ Like(d.productos[i].codigo_barras, t)}
      rango == [i \in ids |-> IF Like(d.productos[i].nombre, t) THEN 1
                               ELSE IF Like(d.productos[i].descripcion, t) THEN 2
                               ELSE 3]
  IN Ordena(d, ids, rango)

\* the ids of the rows returned, in the order returned
buscar_productos(d, termino_busqueda) ==
  LET termino_limpio == strip(termino_busqueda)
  IN IF TerminoVacio(termino_limpio) THEN <<>>
     ELSE IF QueryExacta(d, termino_limpio) # <<>>
          THEN QueryExacta(d, termino_limpio)
          ELSE QueryGeneral(d, termino_limpio)

\* one call of buscar_productos: a read on a connection of its own
Busca(p) ==
  /\ Llega(p)
  /\ \E termino \in Terminos :
       Termina(p, "buscar", TRUE, "",
               [termino |-> termino, productos |-> buscar_productos(db, termino)])
  /\ nops' = nops + 1
  /\ UNCHANGED <<db, lock>>
  /\ UNCHANGED ventana

InitBusqueda ==
  /\ \E c \in CatalogosBusqueda :
       db = [insert_initial_data EXCEPT !.productos = CatalogoDe(c)]
  /\ lock = {}
  /\ pc = [p \in Procs |-> "idle"]
  /\ args = [p \in Procs |-> NoArgs]
  /\ loc = [p \in Procs |-> NoLoc]
  /\ res = [p \in Procs |-> NoRes]
  /\ nops = 0
  /\ ventana = BackupWindow

NextBusqueda == \E p \in Procs : Busca(p)

SpecBusqueda == InitBusqueda /\ [][NextBusqueda]_vars

\* the searches served so far
Busquedas == {res[p].val : p \in {q \in Procs : res[q].op = "buscar"}}

\* WHERE p.activo = 1
Activos == {i \in 1..Len(db.productos) : db.productos[i].activo}

\* C32: a search with an empty or whitespace-only term returns the empty
\* sequence, never every product.
C32_TerminoVacio ==
  \A b \in Busquedas :
    (\A i \in 1..Len(b.termino) : b.termino[i] = Blanco) => b.productos = <<>>

\* a search with a one-blank term ran over a catalog with an active product
C32_Witness ==
  \E b \in Busquedas :
    /\ b.termino = <<Blanco>>
    /\ b.productos = <<>>
    /\ \E i \in 1..Len(db.productos) : db.productos[i].activo

\* the active products whose code is exactly the (non-empty) term
CodigoIgual(b) ==
  {i \in Activos : /\ strip(b.termino) # <<>>
                    /\ db.productos[i].codigo_barras = strip(b.termino)}

RangoGeneral(i, t) ==
  IF Like(db.productos[i].nombre, t) THEN 1
  ELSE IF Like(db.productos[i].descripcion, t) THEN 2
  ELSE 3

\* C34: when the term is no active product's scan code, the search returns
\* exactly the active products whose name, description or code contains the
\* term, name matches first, then description-only matches, then code-only
\* matches, each group by name ascending.
C34_BusquedaGeneral ==
  \A b \in Busquedas :
    LET t == strip(b.termino)
        ids == {i \in Activos : \/ Like(db.productos[i].nombre, t)
                                \/ Like(db.productos[i].descripcion, t)
                                \/ Like(db.productos[i].codigo_barras, t)}
        rango(i) == RangoGeneral(i, t)
    IN (t # <<>> /\ CodigoIgual(b) = {}) =>
         /\ {b.productos[k] : k \in 1..Len(b.productos)} = ids
         /\ Len(b.productos) = Cardinality(ids)
         /\ \A j, k \in 1..Len(b.productos) :
              j < k =>
                \/ rango(b.productos[j]) < rango(b.productos[k])
                \/ /\ rango(b.productos[j]) = rango(b.productos[k])
                   /\ ~TextoMenor(db.productos[b.productos[k]].nombre,
                                  db.productos[b.productos[j]].nombre)

\* ---------------------------------------------------------------------------
\* Currency conversion (convertir_usd_a_ves, convertir_ves_a_usd)
\*
\* the values the row 'tasa_usd_ves' may hold: actualizar_tasa_cambio stores
\* str(nueva_tasa) whatever its sign, and NULL stands for a missing row
TasasGuardadas == TasasNuevas \cup {NULL}

\* the amounts converted, in cents
Montos == {0, 36500, 80000}

RECURSIVE Mcd(_, _)
Mcd(a, b) == IF b = 0 THEN a ELSE Mcd(b, a % b)

Abs(x) == IF x < 0 THEN 0 - x ELSE x

\* the quotient n / d as a fraction in lowest terms with a positive
\* denominator: a division keeps every digit, nothing is rounded to cents
Fraccion(n, d) ==
  LET g == Mcd(Abs(n), Abs(d))
      s == IF d < 0 THEN 0 - 1 ELSE 1
  IN <<(s * n) \div g, (s * d) \div g>>

\* a guard that only refuses the rate zero
TasaPositiva_noCero(tasa) == tasa # 0

\* if tasa > 0
TasaPositiva(tasa) == tasa > 0

\* monto_usd * tasa, in cents of VES
convertir_usd_a_ves(d, monto_usd) == Fraccion(monto_usd * get_tasa_cambio(d), 100)

\* monto_ves / tasa if tasa > 0 else 0, in cents of USD
convertir_ves_a_usd(d, monto_ves) ==
  IF TasaPositiva(get_tasa_cambio(d))
  THEN Fraccion(monto_ves * 100, get_tasa_cambio(d))
  ELSE <<0, 1>>

\* one call of convertir_usd_a_ves: a read of the rate row
llama_convertir_usd_a_ves(p) ==
  /\ Llega(p)
  /\ \E monto \in Montos :
       Termina(p, "convertir_usd_a_ves", TRUE, "",
               [monto |-> monto, resultado |-> convertir_usd_a_ves(db, monto)])
  /\ nops' = nops + 1
  /\ UNCHANGED <<db, lock>>
  /\ UNCHANGED ventana

\* one call of convertir_ves_a_usd: a read of the rate row
llama_convertir_ves_a_usd(p) ==
  /\ Llega(p)
  /\ \E monto \in Montos :
       Termina(p, "convertir_ves_a_usd", TRUE, "",
               [monto |-> monto, resultado |-> convertir_ves_a_usd(db, monto)])
  /\ nops' = nops + 1
  /\ UNCHANGED <<db, lock>>
  /\ UNCHANGED ventana

InitConversion ==
  /\ \E tasa \in TasasGuardadas : db = [TiendaInicial EXCEPT !.tasa = tasa]
  /\ lock = {}
  /\ pc = [p \in Procs |-> "idle"]
  /\ args = [p \in Procs |-> NoArgs]
  /\ loc = [p \in Procs |-> NoLoc]
  /\ res = [p \in Procs |-> NoRes]
  /\ nops = 0
  /\ ventana = BackupWindow

\* conversions between and during rate changes
NextConversion ==
  \E p \in Procs :
    \/ llama_convertir_usd_a_ves(p)
    \/ llama_convertir_ves_a_usd(p)
    \/ api_tasa_cambio(p)
    \/ tasa_config(p)
    \/ tasa_recalc(p)

SpecConversion == InitConversion /\ [][NextConversion]_vars

\* C35: toForeign returns zero, without raising, whenever the current rate is
\* not positive, and amount / rate otherwise; toLocal and toForeign change no
\* stored state.
C35_ConversionSegura ==
  [][\A p \in Procs :
       (res'[p] # res[p] /\ res'[p].op \in {"convertir_usd_a_ves", "convertir_ves_a_usd"}) =>
         /\ db' = db
         /\ res'[p].ok
         /\ res'[p].op = "convertir_ves_a_usd" =>
              LET tasa == IF db.tasa = NULL THEN TasaInicial ELSE db.tasa
                  r == res'[p].val.resultado
              IN IF tasa <= 0 THEN r = <<0, 1>>
                 ELSE r[2] > 0 /\ r[1] * tasa = res'[p].val.monto * 100 * r[2]]_vars

\* 365.00 VES were converted while the stored rate was -1.00: the result is 0
C35_Witness ==
  \E p \in Procs :
    /\ res[p] = Resultado("convertir_ves_a_usd", TRUE, "",
                          [monto |-> 36500, resultado |-> <<0, 1>>])
    /\ db.tasa = 0 - 100

\* ---------------------------------------------------------------------------
\* Inventory writers alone: product creations, sales, purchases and stock
\* adjustments on the catalogue of one product
NextInventario ==
  \E p \in Procs :
    \/ api_crear_venta(p)
    \/ venta_begin(p)
    \/ venta_body(p)
    \/ venta_pagos(p)
    \/ compra_llega(p)
    \/ compra_begin(p)
    \/ compra_body(p)
    \/ api_crear_producto(p)
    \/ crear_insert(p)
    \/ actualizar_stock_producto(p)
    \/ stock_update(p)

SpecInventario == Init /\ [][NextInventario]_vars

\* C36: a stock adjustment that commits while sales, purchases or other
\* adjustments of the same product run loses no update: it adds its delta to
\* the stock committed immediately before it, and the ledger entry it writes
\* has that stock as its quantity-before.
C36_AjusteSinPerdida ==
  [][\A p \in Procs :
       (pc[p] = "stock_update" /\ pc'[p] = "idle" /\ res'[p].op = "stock" /\ res'[p].ok) =>
         LET i == args[p].producto_id
             m == db'.movimientos[Len(db'.movimientos)]
         IN /\ db'.productos[i].stock_actual =
                 db.productos[i].stock_actual + args[p].cantidad_sumar
            /\ Len(db'.movimientos) = Len(db.movimientos) + 1
            /\ m.producto_id = i
            /\ m.cantidad_anterior = db.productos[i].stock_actual]_vars

\* C37: the ledger entries of each product, in commit order, form a chain:
\* every entry after the first has the previous entry's quantity-after as its
\* quantity-before, and the last entry's quantity-after is the product's
\* current stock.
C37_CadenaDeMovimientos ==
  \A i \in Productos :
    LET M == MovsDe(db.movimientos, i)
    IN /\ \A k \in 2..Len(M) : M[k].cantidad_anterior = M[k - 1].cantidad_nueva
       /\ M # <<>> => M[Len(M)].cantidad_nueva = db.productos[i].stock_actual

\* ---------------------------------------------------------------------------
\* Catalog writes and rate changes alone
NextPrecios ==
  \E p \in Procs :
    \/ api_crear_producto(p)
    \/ crear_insert(p)
    \/ api_producto_PUT(p)
    \/ put_update(p)
    \/ api_tasa_cambio(p)
    \/ tasa_config(p)
    \/ tasa_recalc(p)

SpecPrecios == Init /\ [][NextPrecios]_vars

\* C38: once a product creation or update and a rate change that ran at the
\* same time have both completed, every product is priced with the stored
\* rate: its local sell price is round(base price * rate, 2).  Stated for the
\* products that carry both base prices, the ones a rate change recomputes.
C38_PrecioConTasaVigente ==
  (/\ \A p \in Procs : pc[p] = "idle" /\ res[p].ok
   /\ \E p \in Procs : res[p] = Resultado("tasa", TRUE, "", db.tasa)
   /\ \E p \in Procs : res[p].op \in {"crear", "put"}) =>
    \A i \in Productos :
      (db.productos[i].precio_venta_usd # NULL /\ db.productos[i].precio_compra_usd # NULL) =>
        db.productos[i].precio_venta = Round2(db.productos[i].precio_venta_usd * db.tasa)

\* C39: a sale whose cart names the same product on several lines commits one
\* 'salida' entry per line; for each product the entries of the sale chain:
\* the first starts from the stock committed before the sale, each later one
\* from the stock the previous line wrote, and the last one ends at the stock
\* committed, which is the earlier stock minus the sum of the line quantities.
C39_LineasEncadenadas ==
  [][\A p \in Procs :
       (pc[p] = "venta_body" /\ pc'[p] # "venta_body" /\ db' # db) =>
         \A i \in Productos :
           LET M == MovsDe(Nuevas(db.movimientos, db'.movimientos), i)
               n == Cardinality({k \in 1..Len(args[p].items) :
                                   args[p].items[k].producto_id = i})
           IN /\ Len(M) = n
              /\ n > 0 => /\ M[1].cantidad_anterior = db.productos[i].stock_actual
                          /\ M[n].cantidad_nueva = db'.productos[i].stock_actual
              /\ \A k \in 2..n : M[k].cantidad_anterior = M[k - 1].cantidad_nueva
              /\ db'.productos[i].stock_actual =
                   db.productos[i].stock_actual - SumaCantidades(args[p].items, i)]_vars

\* the cart with product 1 on two lines, 2 units and 3 units, has committed on a
\* stock of 5: the entries are 5 -> 3 and 3 -> 0 and the stock is 0
C39_Witness ==
  /\ \E p \in Procs : res[p] = Resultado("venta", TRUE, "", 1)
  /\ Len(db.detalle_ventas) = 2
  /\ \A k \in 1..2 : db.detalle_ventas[k].producto_id = 1
  /\ Len(MovsTx) = 2
  /\ MovsTx[1].cantidad_anterior = 5 /\ MovsTx[1].cantidad_nueva = 3
  /\ MovsTx[2].cantidad_anterior = 3 /\ MovsTx[2].cantidad_nueva = 0
  /\ db.productos[1].stock_actual = 0

\* ---------------------------------------------------------------------------
\* Manual backup (BackupWindow.create_manual_backup)
\*
\* the text of the backup path entry when a backup thread reads it
RutasRespaldo == {"", "respaldos"}

\* if self.is_backup_running
RespaldoEnCurso(v) == v.is_backup_running

\* the button handler, on the main thread: it warns and returns when the flag
\* is set, and starts a backup thread otherwise; the flag is not written here
create_manual_backup ==
  /\ Cardinality({h \in Hilos : ventana.hilos[h] # "none"}) + ventana.avisos < MaxOps
  /\ IF RespaldoEnCurso(ventana)
     THEN ventana' = [ventana EXCEPT !.avisos = @ + 1]
     ELSE LET h == CHOOSE k \in Hilos :
                     ventana.hilos[k] = "none" /\ \A j \in 1..(k - 1) : ventana.hilos[j] # "none"
          IN ventana' = [ventana EXCEPT !.hilos[h] = "inicio"]
  /\ UNCHANGED <<db, lock, pc, args, loc, res, nops>>

\* backup_thread, first statement: self.is_backup_running = True
backup_thread_inicio(h) ==
  /\ ventana.hilos[h] = "inicio"
  /\ ventana' = [ventana EXCEPT !.is_backup_running = TRUE, !.hilos[h] = "ruta"]
  /\ UNCHANGED <<db, lock, pc, args, loc, res, nops>>

\* backup_thread reads the path: an empty one raises ValueError, otherwise
\* shutil.copy2 starts
backup_thread_ruta(h) ==
  /\ ventana.hilos[h] = "ruta"
  /\ \E backup_path \in RutasRespaldo :
       ventana' = [ventana EXCEPT !.hilos[h] =
                     IF backup_path = "" THEN "finally" ELSE "copiando"]
  /\ UNCHANGED <<db, lock, pc, args, loc, res, nops>>

\* shutil.copy2 ends: the backup file holds the store
backup_thread_copia(h) ==
  /\ ventana.hilos[h] = "copiando"
  /\ ventana' = [ventana EXCEPT !.respaldos = Append(@, db), !.hilos[h] = "finally"]
  /\ UNCHANGED <<db, lock, pc, args, loc, res, nops>>

\* finally: self.is_backup_running = False
backup_thread_finally(h) ==
  /\ ventana.hilos[h] = "finally"
  /\ ventana' = [ventana EXCEPT !.is_backup_running = FALSE, !.hilos[h] = "fin"]
  /\ UNCHANGED <<db, lock, pc, args, loc, res, nops>>

\* manual backups of a store whose rate is being changed
NextRespaldo ==
  \/ create_manual_backup
  \/ \E h \in Hilos :
       \/ backup_thread_inicio(h)
       \/ backup_thread_ruta(h)
       \/ backup_thread_copia(h)
       \/ backup_thread_finally(h)
  \/ \E p \in Procs :
       \/ api_tasa_cambio(p)
       \/ tasa_config(p)
       \/ tasa_recalc(p)

SpecRespaldo == Init /\ [][NextRespaldo]_vars

\* C40: at most one manual backup copy runs at a time: no two backup threads
\* are copying the store in the same state.
C40_UnaSolaCopia ==
  Cardinality({h \in Hilos : ventana.hilos[h] = "copiando"}) <= 1
====
